---- MODULE Spec2Model ----
(***************************************************************************)
(* Model of ArrangementClipHandler (src/abletonosc/arrangement_clip.py):   *)
(* the six track-level arrangement commands and the clip-scoped callback,  *)
(* run against a host (Live) whose tracks own a time-ordered sequence of   *)
(* arrangement clips and a sequence of session clip slots.                 *)
(*                                                                         *)
(* Times are counted in ticks of 0.0005 timeline units, so that the        *)
(* tolerance 0.001 of the re-scan loops is two ticks and two start times   *)
(* can be distinct and still within the tolerance.                         *)
(***************************************************************************)
EXTENDS Integers, Sequences, FiniteSets, TLC

\* ------------------------------------------------------------------ bounds
MaxClips  == 2      \* arrangement clips in the whole song
MaxTime   == 4      \* largest time a command is sent with, in ticks
MaxNotes  == 2      \* notes in one clip

\* abs(ac.start_time - t) < 0.001, in ticks of 0.0005
Eps == 2

VARIABLES
    tracks,            \* self.song.tracks: <<[arrangement_clips, clip_slots]>>
    has_arrangement,   \* hasattr(track, 'arrangement_clips') on this host
    last,              \* the command being answered: arguments, outcome, the song before it
    trip,              \* a caller's create-then-delete: the song before the create, its reply
    listeners          \* the property listeners registered by start_listen

vars == <<tracks, has_arrangement, last, trip, listeners>>

\* ------------------------------------------------------------ small helpers
Abs(x) == IF x < 0 THEN -x ELSE x

Min(S) == CHOOSE x \in S : \A y \in S : x <= y

InsertAt(s, p, x) == SubSeq(s, 1, p - 1) \o <<x>> \o SubSeq(s, p, Len(s))

RemoveAt(s, p) == SubSeq(s, 1, p - 1) \o SubSeq(s, p + 1, Len(s))

\* -------------------------------------------------------------- host: clips
Names == {"a", "b", "s", ""}

MakeClip(st, sm, em, ls, le, lp, nm) ==
    [start_time |-> st, start_marker |-> sm, end_marker |-> em,
     loop_start |-> ls, loop_end |-> le, looping |-> lp, name |-> nm,
     notes |-> <<>>]

\* Clip.length: the loop length of a looping clip, else the marker distance
Length(c) ==
    IF c.looping THEN c.loop_end - c.loop_start ELSE c.end_marker - c.start_marker

\* Clip.end_time, derived: start_time + length
EndTime(c) == c.start_time + Length(c)

\* the attributes of a clip other than its place on the timeline
Content(c) == [start_marker |-> c.start_marker, end_marker |-> c.end_marker,
               loop_start |-> c.loop_start, loop_end |-> c.loop_end,
               looping |-> c.looping, name |-> c.name, notes |-> c.notes]

\* a slot without a clip
NoClip == MakeClip(0, 0, 0, 0, 0, FALSE, "")

EmptySlot == [has_clip |-> FALSE, clip |-> NoClip]

FullSlot(c) == [has_clip |-> TRUE, clip |-> c]

\* Slot.create_clip(length): a fresh MIDI clip, looped over its whole length
NewSessionClip(length) == MakeClip(0, 0, length, 0, length, TRUE, "")

\* ---------------------------------------------------- host: Python sequences
\* seq[i] on a sequence of n elements: -n <= i < n, negative i counts from the end
PyInRange(i, n) == -n <= i /\ i < n

\* the 1-based position seq[i] designates
PyPos(i, n) == IF i < 0 THEN n + i + 1 ELSE i + 1

\* ------------------------------------------------------ host: the arrangement
\* the positions at which a clip starting at t can enter a time-ordered sequence
InsertPositions(clips, t) ==
    {p \in 1..(Len(clips) + 1) :
        /\ \A q \in 1..(p - 1) : clips[q].start_time <= t
        /\ \A q \in p..Len(clips) : t <= clips[q].start_time}

\* Track.duplicate_clip_to_arrangement(clip, dest_time): a copy of clip starts at
\* dest_time; it enters the sequence at position p
DuplicateClipToArrangement(clips, clip, dest_time, p) ==
    InsertAt(clips, p, [clip EXCEPT !.start_time = dest_time])

\* Track.delete_clip(clip), clip being the element at position p
DeleteClip(clips, p) == RemoveAt(clips, p)

TotalClips(trs) ==
    LET RECURSIVE Sum(_)
        Sum(k) == IF k = 0 THEN 0 ELSE Len(trs[k].arrangement_clips) + Sum(k - 1)
    IN Sum(Len(trs))

\* ------------------------------------------------------------ command inputs
Num(n) == [numeric |-> TRUE, v |-> n]

NonNumeric == [numeric |-> FALSE, v |-> 0]

\* int(params[0]), float(params[1]), ... in order: the first of the first n
\* arguments that is missing (IndexError) or not a number (ValueError)
Coerce(params, n) ==
    LET bad == {k \in 1..n : k > Len(params) \/ ~params[k].numeric}
    IN IF bad = {} THEN "ok"
       ELSE IF Min(bad) > Len(params) THEN "MissingArgument" ELSE "NonNumeric"

\* the values of the arguments, as far as they are numbers
ArgsOf(params) ==
    IF \A k \in 1..Len(params) : params[k].numeric
    THEN [k \in 1..Len(params) |-> params[k].v]
    ELSE <<>>

\* --------------------------------------------------------- the re-scan loop
\* a comparison that also takes a distance of exactly the tolerance
NearM(a, b) == Abs(a - b) <= Eps

\* abs(ac.start_time - start_time) < 0.001
Near(a, b) == Abs(a - b) < Eps

RECURSIVE ScanFrom(_, _, _)
ScanFrom(clips, target_time, i) ==
    IF i > Len(clips) THEN -1
    ELSE IF Near(clips[i].start_time, target_time) THEN i - 1
    ELSE ScanFrom(clips, target_time, i + 1)

\* for i, ac in enumerate(track.arrangement_clips): if abs(...) < 0.001: return i
\* the 0-based index of the first clip near target_time, -1 when the loop ends
Resolve(clips, target_time) == ScanFrom(clips, target_time, 1)

\* ---------------------------------------------------------------- outcomes
Outcome(trs, res, rep) == [tracks |-> trs, result |-> res, reply |-> rep]

Fail(trs, res) == Outcome(trs, res, <<>>)

WithClips(trs, tp, clips) == [trs EXCEPT ![tp].arrangement_clips = clips]

WithSlot(trs, tp, sp, slot) == [trs EXCEPT ![tp].clip_slots[sp] = slot]

\* ------------------------------------------------- create_arrangement_clip
\* a scan that keeps the last slot without a clip
FirstEmptySlotM(slots) ==
    LET empty == {i \in 1..Len(slots) : ~slots[i].has_clip}
        Max(S) == CHOOSE x \in S : \A y \in S : y <= x
    IN IF empty = {} THEN 0 ELSE Max(empty)

\* for i, slot in enumerate(track.clip_slots): if not slot.has_clip: ... break
\* the position of the first slot without a clip, 0 when there is none
FirstEmptySlot(slots) ==
    LET empty == {i \in 1..Len(slots) : ~slots[i].has_clip}
    IN IF empty = {} THEN 0 ELSE Min(empty)

\* a reply that counts the clips from 1
CreateReplyM(track_index, clips, start_time) ==
    <<track_index, Resolve(clips, start_time) + 1>>

\* return (track_index, i) from the re-scan, (track_index, -1) after it
CreateReply(track_index, clips, start_time) ==
    <<track_index, Resolve(clips, start_time)>>

\* the outcomes of create_arrangement_clip(params) on song trs
CreateOutcomes(trs, ha, params) ==
    IF Coerce(params, 3) # "ok" THEN {Fail(trs, Coerce(params, 3))}
    ELSE LET track_index == params[1].v
             start_time  == params[2].v
             length      == params[3].v
         IN
    IF ~PyInRange(track_index, Len(trs)) THEN {Fail(trs, "OutOfRange")}
    ELSE LET tp    == PyPos(track_index, Len(trs))
             track == trs[tp]
             sp    == FirstEmptySlot(track.clip_slots)
         IN
    IF sp = 0 THEN {Fail(trs, "NoAvailableSlot")}
    ELSE LET clip    == NewSessionClip(length)
             \* slot.create_clip(length); clip = slot.clip
             made    == WithSlot(trs, tp, sp, FullSlot(clip))
             \* track.duplicate_clip_to_arrangement(clip, start_time)
             dupd(p) == WithClips(made, tp,
                           DuplicateClipToArrangement(track.arrangement_clips, clip, start_time, p))
             \* slot.delete_clip()
             done(p) == WithSlot(dupd(p), tp, sp, EmptySlot)
             ps      == InsertPositions(track.arrangement_clips, start_time)
         IN
    IF ha
    THEN {Outcome(done(p), "ok",
                  CreateReply(track_index, done(p)[tp].arrangement_clips, start_time)) : p \in ps}
    \* no arrangement access on this host: the duplicate call or, at the latest,
    \* the read of track.arrangement_clips raises AttributeError
    ELSE {Fail(made, "AttributeError")} \cup {Fail(done(p), "AttributeError") : p \in ps}

\* ------------------------------------------------- delete_arrangement_clip
\* a delete that takes the first clip of the track
DeletedM(clips, clip_index) == DeleteClip(clips, 1)

\* clip = track.arrangement_clips[clip_index]; track.delete_clip(clip)
Deleted(clips, clip_index) == DeleteClip(clips, PyPos(clip_index, Len(clips)))

DeleteOutcomes(trs, ha, params) ==
    IF Coerce(params, 2) # "ok" THEN {Fail(trs, Coerce(params, 2))}
    ELSE LET track_index == params[1].v
             clip_index  == params[2].v
         IN
    IF ~PyInRange(track_index, Len(trs)) THEN {Fail(trs, "OutOfRange")}
    ELSE LET tp    == PyPos(track_index, Len(trs))
             clips == trs[tp].arrangement_clips
         IN
    IF ~ha THEN {Fail(trs, "AttributeError")}
    ELSE IF ~PyInRange(clip_index, Len(clips)) THEN {Fail(trs, "OutOfRange")}
    ELSE {Outcome(WithClips(trs, tp, Deleted(clips, clip_index)), "ok", <<>>)}

\* ------------------------------------------------ duplicate_to_arrangement
\* return (track_index, i) from the re-scan, (track_index,) after it
SessionReply(track_index, clips, dest_time) ==
    IF Resolve(clips, dest_time) >= 0
    THEN <<track_index, Resolve(clips, dest_time)>>
    ELSE <<track_index>>

DuplicateToArrangementOutcomes(trs, ha, params) ==
    IF Coerce(params, 3) # "ok" THEN {Fail(trs, Coerce(params, 3))}
    ELSE LET track_index  == params[1].v
             clip_slot_id == params[2].v
             dest_time    == params[3].v
         IN
    IF ~PyInRange(track_index, Len(trs)) THEN {Fail(trs, "OutOfRange")}
    ELSE LET tp    == PyPos(track_index, Len(trs))
             track == trs[tp]
         IN
    IF ~PyInRange(clip_slot_id, Len(track.clip_slots)) THEN {Fail(trs, "OutOfRange")}
    ELSE LET clip_slot == track.clip_slots[PyPos(clip_slot_id, Len(track.clip_slots))]
             dupd(p)   == WithClips(trs, tp,
                             DuplicateClipToArrangement(track.arrangement_clips,
                                                        clip_slot.clip, dest_time, p))
             ps        == InsertPositions(track.arrangement_clips, dest_time)
         IN
    IF ~clip_slot.has_clip THEN {Fail(trs, "NoClipInSlot")}
    ELSE IF ha
    THEN {Outcome(dupd(p), "ok",
                  SessionReply(track_index, dupd(p)[tp].arrangement_clips, dest_time)) : p \in ps}
    ELSE {Fail(trs, "AttributeError")} \cup {Fail(dupd(p), "AttributeError") : p \in ps}

\* -------------------------------------------------- split_arrangement_clip
\* a bounds check that lets the two ends through
SplitInBoundsM(split_time, orig_start, orig_end) ==
    ~(split_time < orig_start \/ split_time > orig_end)

\* not (split_time <= orig_start or split_time >= orig_end)
SplitInBounds(split_time, orig_start, orig_end) ==
    ~(split_time <= orig_start \/ split_time >= orig_end)

\* the re-scan of split: orig_idx and new_idx as 0-based indices, -1 for None
RECURSIVE SplitScan(_, _, _, _, _, _)
SplitScan(clips, orig_start, split_time, i, orig_idx, new_idx) ==
    IF i > Len(clips) THEN <<orig_idx, new_idx>>
    ELSE IF Near(clips[i].start_time, orig_start) /\ orig_idx = -1
         THEN SplitScan(clips, orig_start, split_time, i + 1, i - 1, new_idx)
    ELSE IF Near(clips[i].start_time, split_time) /\ new_idx = -1
         THEN SplitScan(clips, orig_start, split_time, i + 1, orig_idx, i - 1)
    ELSE SplitScan(clips, orig_start, split_time, i + 1, orig_idx, new_idx)

\* orig_clip.end_marker = split_time - orig_start; loop_end too if looping
TrimLeft(c, offset) ==
    IF c.looping THEN [c EXCEPT !.end_marker = offset, !.loop_end = offset]
    ELSE [c EXCEPT !.end_marker = offset]

\* a trim that moves the loop start of every clip
TrimRightM(c, offset) == [c EXCEPT !.start_marker = offset, !.loop_start = offset]

\* new_clip.start_marker = offset; loop_start too if looping
TrimRight(c, offset) ==
    IF c.looping THEN [c EXCEPT !.start_marker = offset, !.loop_start = offset]
    ELSE [c EXCEPT !.start_marker = offset]

\* both trims, applied to the clips the re-scan found
SplitTrim(clips, found, offset) ==
    LET left == IF found[1] >= 0
                THEN [clips EXCEPT ![found[1] + 1] = TrimLeft(@, offset)]
                ELSE clips
    IN IF found[2] >= 0
       THEN [left EXCEPT ![found[2] + 1] = TrimRight(@, offset)]
       ELSE left

\* a reply that names the right piece first
SplitReplyM(track_index, clip_index, found) ==
    <<track_index, found[2], IF found[1] >= 0 THEN found[1] ELSE clip_index>>

\* (track_index, orig_idx if not None else clip_index, new_idx if not None else -1)
SplitReply(track_index, clip_index, found) ==
    <<track_index, IF found[1] >= 0 THEN found[1] ELSE clip_index, found[2]>>

SplitOutcomes(trs, ha, params) ==
    IF Coerce(params, 3) # "ok" THEN {Fail(trs, Coerce(params, 3))}
    ELSE LET track_index == params[1].v
             clip_index  == params[2].v
             split_time  == params[3].v
         IN
    IF ~PyInRange(track_index, Len(trs)) THEN {Fail(trs, "OutOfRange")}
    ELSE LET tp    == PyPos(track_index, Len(trs))
             clips == trs[tp].arrangement_clips
         IN
    IF ~ha THEN {Fail(trs, "AttributeError")}
    ELSE IF ~PyInRange(clip_index, Len(clips)) THEN {Fail(trs, "OutOfRange")}
    ELSE LET clip       == clips[PyPos(clip_index, Len(clips))]
             orig_start == clip.start_time
             orig_end   == EndTime(clip)
             dupd(p)    == DuplicateClipToArrangement(clips, clip, split_time, p)
             found(p)   == SplitScan(dupd(p), orig_start, split_time, 1, -1, -1)
             ps         == InsertPositions(clips, split_time)
         IN
    IF ~SplitInBounds(split_time, orig_start, orig_end) THEN {Fail(trs, "BoundsViolation")}
    ELSE {Outcome(WithClips(trs, tp, SplitTrim(dupd(p), found(p), split_time - orig_start)),
                  "ok", SplitReply(track_index, clip_index, found(p))) : p \in ps}

\* --------------------------------------------------- move_arrangement_clip
MoveOutcomes(trs, ha, params) ==
    IF Coerce(params, 3) # "ok" THEN {Fail(trs, Coerce(params, 3))}
    ELSE LET track_index == params[1].v
             clip_index  == params[2].v
             new_start   == params[3].v
         IN
    IF ~PyInRange(track_index, Len(trs)) THEN {Fail(trs, "OutOfRange")}
    ELSE LET tp    == PyPos(track_index, Len(trs))
             clips == trs[tp].arrangement_clips
         IN
    IF ~ha THEN {Fail(trs, "AttributeError")}
    ELSE IF ~PyInRange(clip_index, Len(clips)) THEN {Fail(trs, "OutOfRange")}
    ELSE LET clip     == clips[PyPos(clip_index, Len(clips))]
             \* track.duplicate_clip_to_arrangement(clip, new_start)
             dupd(p)  == DuplicateClipToArrangement(clips, clip, new_start, p)
             \* old_clip = track.arrangement_clips[clip_index]; track.delete_clip(old_clip)
             moved(p) == DeleteClip(dupd(p), PyPos(clip_index, Len(dupd(p))))
             ps       == InsertPositions(clips, new_start)
         IN {Outcome(WithClips(trs, tp, moved(p)), "ok",
                     <<track_index, Resolve(moved(p), new_start)>>) : p \in ps}

\* ---------------------------------------------- duplicate_arrangement_clip
\* a reply that takes the new clip to be the last of the track
DuplicateReplyM(track_index, clips, dest_time) ==
    <<track_index, Len(clips) - 1>>

\* return (track_index, i) from the re-scan, (track_index, -1) after it
DuplicateReply(track_index, clips, dest_time) ==
    <<track_index, Resolve(clips, dest_time)>>

\* a duplicate that leaves the copy at the start time of the original
DuplicateCopyM(clips, clip, dest_time, p) ==
    DuplicateClipToArrangement(clips, clip, clip.start_time, p)

\* track.duplicate_clip_to_arrangement(clip, dest_time)
DuplicateCopy(clips, clip, dest_time, p) ==
    DuplicateClipToArrangement(clips, clip, dest_time, p)

DuplicateOutcomes(trs, ha, params) ==
    IF Coerce(params, 3) # "ok" THEN {Fail(trs, Coerce(params, 3))}
    ELSE LET track_index == params[1].v
             clip_index  == params[2].v
             dest_time   == params[3].v
         IN
    IF ~PyInRange(track_index, Len(trs)) THEN {Fail(trs, "OutOfRange")}
    ELSE LET tp    == PyPos(track_index, Len(trs))
             clips == trs[tp].arrangement_clips
         IN
    IF ~ha THEN {Fail(trs, "AttributeError")}
    ELSE IF ~PyInRange(clip_index, Len(clips)) THEN {Fail(trs, "OutOfRange")}
    ELSE LET clip    == clips[PyPos(clip_index, Len(clips))]
             dupd(p) == DuplicateCopy(clips, clip, dest_time, p)
             ps      == InsertPositions(clips, dest_time)
         IN {Outcome(WithClips(trs, tp, dupd(p)), "ok",
                     DuplicateReply(track_index, dupd(p), dest_time)) : p \in ps}

\* ------------------------------------------------ clip-scoped: properties
Properties == {"start_marker", "end_marker", "loop_start", "loop_end", "looping"}

\* getattr(clip, prop), a flag read as 0 or 1
GetProperty(c, prop) ==
    CASE prop = "start_marker" -> c.start_marker
      [] prop = "end_marker"   -> c.end_marker
      [] prop = "loop_start"   -> c.loop_start
      [] prop = "loop_end"     -> c.loop_end
      [] prop = "looping"      -> IF c.looping THEN 1 ELSE 0

\* setattr(clip, prop, value)
SetProperty(c, prop, value) ==
    CASE prop = "start_marker" -> [c EXCEPT !.start_marker = value]
      [] prop = "end_marker"   -> [c EXCEPT !.end_marker = value]
      [] prop = "loop_start"   -> [c EXCEPT !.loop_start = value]
      [] prop = "loop_end"     -> [c EXCEPT !.loop_end = value]
      [] prop = "looping"      -> [c EXCEPT !.looping = (value # 0)]

\* ------------------------------------------------- clip-scoped: MIDI notes
\* a note: <<pitch, start_time, duration, velocity, mute>>
InSpan(note, pitch_start, pitch_span, time_start, time_span) ==
    /\ pitch_start <= note[1] /\ note[1] < pitch_start + pitch_span
    /\ time_start <= note[2] /\ note[2] < time_start + time_span

\* clip.get_notes_extended(pitch_start, pitch_span, time_start, time_span)
GetNotesExtended(c, span) ==
    SelectSeq(c.notes, LAMBDA n : InSpan(n, span[1], span[2], span[3], span[4]))

\* clip.remove_notes_extended(pitch_start, pitch_span, time_start, time_span)
RemoveNotesExtended(c, span) ==
    [c EXCEPT !.notes = SelectSeq(@, LAMBDA n : ~InSpan(n, span[1], span[2], span[3], span[4]))]

\* clip.add_new_notes(notes)
AddNewNotes(c, notes) == [c EXCEPT !.notes = @ \o notes]

\* pitch_start, pitch_span, time_start, time_span = 0, 127, -8192, 16384
WholeSpan == <<0, 127, -8192, 16384>>

\* the span a notes handler is called with: its four arguments, or the whole span
SpanOf(rest) == IF Len(rest) = 4 THEN rest ELSE WholeSpan

\* all_note_attributes += [note.pitch, note.start_time, note.duration, ...]
RECURSIVE Flatten(_)
Flatten(notes) == IF notes = <<>> THEN <<>> ELSE Head(notes) \o Flatten(Tail(notes))

\* for offset in range(0, len(params), 5): ... = params[offset:offset + 5]
Chunks(rest) == [k \in 1..(Len(rest) \div 5) |-> SubSeq(rest, 5 * k - 4, 5 * k)]

\* ------------------------------------------------ clip-scoped: the handlers
\* what a bound handler returns: None, or a tuple
None == [some |-> FALSE, v |-> <<>>]

Some(v) == [some |-> TRUE, v |-> v]

Returned(c, lis, rv) == [clip |-> c, listeners |-> lis, result |-> "ok", rv |-> rv]

Raised(c, lis, res) == [clip |-> c, listeners |-> lis, result |-> res, rv |-> None]

\* self._get_property(clip, prop, params): the value, as a tuple of one
get_property(c, lis, prop, passed) == Returned(c, lis, Some(<<GetProperty(c, prop)>>))

\* self._set_property(clip, prop, params): writes params[0] and gives it back
set_property(c, lis, prop, passed) ==
    IF Len(passed) = 0 THEN Raised(c, lis, "MissingArgument")
    ELSE IF ~passed[1].numeric THEN Raised(c, lis, "NonNumeric")
    ELSE Returned(SetProperty(c, prop, passed[1].v), lis, Some(<<passed[1].v>>))

\* self._start_listen(clip, prop, params): registers the listener of prop under
\* the arguments of the command, once
start_listen(c, lis, prop, passed) == Returned(c, lis \cup {<<prop, ArgsOf(passed)>>}, None)

\* self._stop_listen(clip, prop, params): removes it, if it is there
stop_listen(c, lis, prop, passed) == Returned(c, lis \ {<<prop, ArgsOf(passed)>>}, None)

\* def clip_get_notes(clip, params)
clip_get_notes(c, lis, passed) ==
    IF Len(passed) \notin {0, 4} THEN Raised(c, lis, "InvalidArgumentCount")
    ELSE Returned(c, lis, Some(Flatten(GetNotesExtended(c, SpanOf(ArgsOf(passed))))))

\* def clip_add_notes(clip, params)
clip_add_notes(c, lis, passed) ==
    IF Len(passed) % 5 # 0 THEN Raised(c, lis, "InvalidArgumentCount")
    ELSE Returned(AddNewNotes(c, Chunks(ArgsOf(passed))), lis, None)

\* def clip_remove_notes(clip, params)
clip_remove_notes(c, lis, passed) ==
    IF Len(passed) \notin {0, 4} THEN Raised(c, lis, "InvalidArgumentCount")
    ELSE Returned(RemoveNotesExtended(c, SpanOf(ArgsOf(passed))), lis, None)

\* func(clip, *args, passed): the handler the command was registered with
Bound(func, prop, c, lis, passed) ==
    CASE func = "get"          -> get_property(c, lis, prop, passed)
      [] func = "set"          -> set_property(c, lis, prop, passed)
      [] func = "start_listen" -> start_listen(c, lis, prop, passed)
      [] func = "stop_listen"  -> stop_listen(c, lis, prop, passed)
      [] func = "get_notes"    -> clip_get_notes(c, lis, passed)
      [] func = "add_notes"    -> clip_add_notes(c, lis, passed)
      [] func = "remove_notes" -> clip_remove_notes(c, lis, passed)

\* ------------------------------------------------- clip-scoped: the wrapper
\* pass_clip_index=True in the registration of the command
PassClipIndex(func) == func \in {"start_listen", "stop_listen"}

\* tuple(params[0:]) if pass_clip_index else tuple(params[2:])
Passed(params, pass_clip_index) ==
    IF pass_clip_index THEN params ELSE SubSeq(params, 3, Len(params))

\* a reply that leaves the clip index out
CallbackReplyM(track_index, clip_index, rv) ==
    IF rv.some THEN <<track_index>> \o rv.v ELSE <<>>

\* if rv is not None: return (track_index, clip_index, *rv)
CallbackReply(track_index, clip_index, rv) ==
    IF rv.some THEN <<track_index, clip_index>> \o rv.v ELSE <<>>

\* arrangement_clip_callback(params), wrapping the handler func of property prop
CallbackOutcomes(trs, lis, ha, params, func, prop) ==
    IF Coerce(params, 2) # "ok" THEN {Fail(trs, Coerce(params, 2))}
    ELSE LET track_index == params[1].v
             clip_index  == params[2].v
         IN
    IF ~PyInRange(track_index, Len(trs)) THEN {Fail(trs, "OutOfRange")}
    ELSE LET tp    == PyPos(track_index, Len(trs))
             clips == trs[tp].arrangement_clips
         IN
    IF ~ha THEN {Fail(trs, "CapabilityUnavailable")}
    ELSE IF ~PyInRange(clip_index, Len(clips)) THEN {Fail(trs, "OutOfRange")}
    ELSE LET cp == PyPos(clip_index, Len(clips))
             b  == Bound(func, prop, clips[cp], lis, Passed(params, PassClipIndex(func)))
         IN
    IF b.result # "ok" THEN {Fail(trs, b.result)}
    ELSE {[tracks    |-> WithClips(trs, tp, [clips EXCEPT ![cp] = b.clip]),
           listeners |-> b.listeners,
           result    |-> "ok",
           reply     |-> CallbackReply(track_index, clip_index, b.rv)]}

\* ------------------------------------------------------------ the commands
\* the song has two tracks, of three and of two session slots;
\* -1 is the last track, the last slot, the last clip
TrackArgs == {-1, 0}

SlotArgs == (-1)..1

ClipArgs == (-1)..(MaxClips - 1)

TimeArgs == 0..MaxTime

LengthArgs == {2}

ValueArgs == {1}

\* the properties the set command is sent for
WrittenProperties == {"start_marker"}

\* commands whose arguments are all numbers
WellFormed(A, B, C) == {<<Num(a), Num(b), Num(c)>> : a \in A, b \in B, c \in C}

WellFormed2(A, B) == {<<Num(a), Num(b)>> : a \in A, b \in B}

\* a missing argument, an argument that is not a number in each place, and a
\* track index past the end
Malformed ==
    {<<Num(0), Num(0)>>, <<NonNumeric, Num(0), Num(2)>>,
     <<Num(0), NonNumeric, Num(2)>>, <<Num(0), Num(0), NonNumeric>>,
     <<Num(2), Num(0), Num(2)>>}

\* the same for the commands of two arguments
Malformed2 ==
    {<<Num(0)>>, <<NonNumeric, Num(0)>>, <<Num(0), NonNumeric>>, <<Num(2), Num(0)>>}

NoCommand ==
    [op |-> "none", prop |-> "", args |-> <<>>, result |-> "ok", reply |-> <<>>, pre |-> <<>>]

NoTrip == [phase |-> "idle", track_index |-> 0, start_time |-> 0, k |-> 0, pre |-> <<>>]

\* one command, handled from its arrival to its reply or its error; a command
\* is taken up once the one before it has been answered (last = NoCommand).
\* Songs are followed up to MaxClips clips; a split of a full song is followed
\* one clip further, so that its two pieces are seen next to a third clip
HandleProp(op, prop, params, outcomes) ==
    /\ TotalClips(tracks) <= MaxClips
    /\ \E o \in outcomes :
        /\ TotalClips(o.tracks) <= (IF op = "split" THEN MaxClips + 1 ELSE MaxClips)
        /\ tracks' = o.tracks
        /\ listeners' = IF "listeners" \in DOMAIN o THEN o.listeners ELSE listeners
        /\ last' = [op |-> op, prop |-> prop, args |-> ArgsOf(params), result |-> o.result,
                    reply |-> o.reply, pre |-> tracks]
    /\ UNCHANGED has_arrangement

\* a track-level command
Handle(op, params, outcomes) == HandleProp(op, "", params, outcomes)

create_arrangement_clip ==
    /\ last = NoCommand /\ trip = NoTrip
    /\ \E params \in WellFormed(TrackArgs, TimeArgs, LengthArgs) \cup Malformed :
        Handle("create", params, CreateOutcomes(tracks, has_arrangement, params))
    /\ UNCHANGED trip

delete_arrangement_clip ==
    /\ last = NoCommand /\ trip = NoTrip
    /\ \E params \in WellFormed2(TrackArgs, ClipArgs \cup {MaxClips}) \cup Malformed2 :
        Handle("delete", params, DeleteOutcomes(tracks, has_arrangement, params))
    /\ UNCHANGED trip

duplicate_to_arrangement ==
    /\ last = NoCommand /\ trip = NoTrip
    /\ \E params \in WellFormed(TrackArgs, SlotArgs, TimeArgs) \cup Malformed
                        \cup {<<Num(0), Num(3), Num(0)>>} :
        Handle("duplicate_to_arrangement", params,
               DuplicateToArrangementOutcomes(tracks, has_arrangement, params))
    /\ UNCHANGED trip

split_arrangement_clip ==
    /\ last = NoCommand /\ trip = NoTrip
    /\ \E params \in WellFormed(TrackArgs, ClipArgs, TimeArgs) \cup Malformed
                        \cup {<<Num(0), Num(MaxClips), Num(0)>>} :
        Handle("split", params, SplitOutcomes(tracks, has_arrangement, params))
    /\ UNCHANGED trip

move_arrangement_clip ==
    /\ last = NoCommand /\ trip = NoTrip
    /\ \E params \in WellFormed(TrackArgs, ClipArgs, TimeArgs) \cup Malformed
                        \cup {<<Num(0), Num(MaxClips), Num(0)>>} :
        Handle("move", params, MoveOutcomes(tracks, has_arrangement, params))
    /\ UNCHANGED trip

duplicate_arrangement_clip ==
    /\ last = NoCommand /\ trip = NoTrip
    /\ \E params \in WellFormed(TrackArgs, ClipArgs, TimeArgs) \cup Malformed
                        \cup {<<Num(0), Num(MaxClips), Num(0)>>} :
        Handle("duplicate", params, DuplicateOutcomes(tracks, has_arrangement, params))
    /\ UNCHANGED trip

arrangement_clip_get ==
    /\ last = NoCommand /\ trip = NoTrip
    /\ \E params \in WellFormed2(TrackArgs, ClipArgs \cup {MaxClips}) \cup Malformed2,
          prop \in Properties :
        HandleProp("get", prop, params,
                   CallbackOutcomes(tracks, listeners, has_arrangement, params, "get", prop))
    /\ UNCHANGED trip

arrangement_clip_set ==
    /\ last = NoCommand /\ trip = NoTrip
    /\ \E params \in WellFormed(TrackArgs, ClipArgs, ValueArgs) \cup Malformed
                        \cup {<<Num(0), Num(MaxClips), Num(0)>>},
          prop \in WrittenProperties :
        HandleProp("set", prop, params,
                   CallbackOutcomes(tracks, listeners, has_arrangement, params, "set", prop))
    /\ UNCHANGED trip

\* the note the notes commands are sent with: pitch 1 at time 0
NoteArgs == <<Num(1), Num(0), Num(1), Num(1), Num(0)>>

\* spans with and without pitch 1; a span is four numbers
SpanArgs == {<<Num(0), Num(1), Num(0), Num(1)>>, <<Num(1), Num(1), Num(0), Num(1)>>}

\* the clip named, alone and followed by each of rests
WithRest(rests) ==
    {params \o rest : params \in WellFormed2(TrackArgs, ClipArgs), rest \in rests \cup {<<>>}}
        \cup Malformed2

\* the properties the listen commands are sent for
ListenedProperties == {"looping"}

arrangement_clip_get_notes ==
    /\ last = NoCommand /\ trip = NoTrip
    /\ \E params \in WithRest(SpanArgs \cup {<<Num(0)>>}) :
        HandleProp("get_notes", "", params,
                   CallbackOutcomes(tracks, listeners, has_arrangement, params, "get_notes", ""))
    /\ UNCHANGED trip

arrangement_clip_add_notes ==
    /\ last = NoCommand /\ trip = NoTrip
    /\ \E params \in WithRest({NoteArgs, SubSeq(NoteArgs, 1, 4)}) :
        /\ HandleProp("add_notes", "", params,
                      CallbackOutcomes(tracks, listeners, has_arrangement, params, "add_notes", ""))
        /\ \A k \in 1..Len(tracks') : \A i \in 1..Len(tracks'[k].arrangement_clips) :
              Len(tracks'[k].arrangement_clips[i].notes) <= MaxNotes
    /\ UNCHANGED trip

arrangement_clip_remove_notes ==
    /\ last = NoCommand /\ trip = NoTrip
    /\ \E params \in WithRest(SpanArgs \cup {<<Num(0)>>}) :
        HandleProp("remove_notes", "", params,
                   CallbackOutcomes(tracks, listeners, has_arrangement, params, "remove_notes", ""))
    /\ UNCHANGED trip

arrangement_clip_start_listen ==
    /\ last = NoCommand /\ trip = NoTrip
    /\ \E params \in WithRest({}), prop \in ListenedProperties :
        HandleProp("start_listen", prop, params,
                   CallbackOutcomes(tracks, listeners, has_arrangement, params, "start_listen", prop))
    /\ UNCHANGED trip

arrangement_clip_stop_listen ==
    /\ last = NoCommand /\ trip = NoTrip
    /\ \E params \in WithRest({}), prop \in ListenedProperties :
        HandleProp("stop_listen", prop, params,
                   CallbackOutcomes(tracks, listeners, has_arrangement, params, "stop_listen", prop))
    /\ UNCHANGED trip

\* the reply, or the failure, goes back to the caller
send_reply ==
    /\ last # NoCommand
    /\ last' = NoCommand
    /\ UNCHANGED <<tracks, has_arrangement, trip, listeners>>

\* ------------------------------------------- a caller's create-then-delete
\* the caller sends create and keeps the song it saw before and the reply
round_trip_create ==
    /\ last = NoCommand /\ trip = NoTrip
    /\ \E params \in WellFormed(TrackArgs, TimeArgs, LengthArgs) :
        /\ Handle("create", params, CreateOutcomes(tracks, has_arrangement, params))
        /\ last'.result = "ok"
        /\ trip' = [phase |-> "created", track_index |-> params[1].v,
                    start_time |-> params[2].v, k |-> last'.reply[2], pre |-> tracks]

\* and then sends delete with the clip index of that reply
round_trip_delete ==
    /\ last = NoCommand /\ trip.phase = "created"
    /\ Handle("delete", <<Num(trip.track_index), Num(trip.k)>>,
              DeleteOutcomes(tracks, has_arrangement, <<Num(trip.track_index), Num(trip.k)>>))
    /\ trip' = [trip EXCEPT !.phase = "deleted"]

\* ------------------------------------------------------------------- Init
ClipA == [MakeClip(0, 0, 4, 0, 4, FALSE, "a") EXCEPT !.notes = <<<<1, 0, 1, 1, 0>>>>]

ClipB == MakeClip(4, 0, 2, 0, 2, TRUE, "b")

ClipS == MakeClip(0, 0, 2, 0, 2, FALSE, "s")

InitArrangements == {<<>>, <<ClipA>>, <<ClipA, ClipB>>}

\* the first track has a session clip in its first slot and two slots free;
\* both slots of the second track hold a session clip
Init ==
    /\ \E arr \in InitArrangements :
          tracks = <<[arrangement_clips |-> arr,
                      clip_slots |-> <<FullSlot(ClipS), EmptySlot, EmptySlot>>],
                     [arrangement_clips |-> <<>>,
                      clip_slots |-> <<FullSlot(ClipS), FullSlot(ClipS)>>]>>
    /\ has_arrangement \in BOOLEAN
    /\ last = NoCommand
    /\ trip = NoTrip
    /\ listeners = {}

Next ==
    \/ create_arrangement_clip
    \/ delete_arrangement_clip
    \/ duplicate_to_arrangement
    \/ split_arrangement_clip
    \/ move_arrangement_clip
    \/ duplicate_arrangement_clip
    \/ arrangement_clip_get
    \/ arrangement_clip_set
    \/ send_reply

Spec == Init /\ [][Next]_vars

NextRoundTrip ==
    \/ Next
    \/ round_trip_create
    \/ round_trip_delete

SpecRoundTrip == Init /\ [][NextRoundTrip]_vars

\* the clip-scoped commands alone: properties, notes and listeners of the clips
\* of the song
NextClipScoped ==
    \/ arrangement_clip_get
    \/ arrangement_clip_set
    \/ arrangement_clip_get_notes
    \/ arrangement_clip_add_notes
    \/ arrangement_clip_remove_notes
    \/ arrangement_clip_start_listen
    \/ arrangement_clip_stop_listen
    \/ send_reply

SpecClipScoped == Init /\ [][NextClipScoped]_vars

\* ============================================================== properties
\* two times the tolerance does not tell apart
Within(a, b) == Abs(a - b) < Eps

\* a command has been handled and its answer is on its way
Answered == last # NoCommand

Succeeded == Answered /\ last.result = "ok"

TrackLevel == {"create", "delete", "duplicate_to_arrangement", "split", "move", "duplicate"}

\* the ordinary, non-negative reading of an index
Present(i, n) == 0 <= i /\ i < n

\* the track the command named, its clips before and after the command
TrackPos == PyPos(last.args[1], Len(last.pre))

PreClips == last.pre[TrackPos].arrangement_clips

PostClips == tracks[TrackPos].arrangement_clips

\* the clip the command named
Named == PreClips[PyPos(last.args[2], Len(PreClips))]

\* the time the command places a clip at
Target == IF last.op = "create" THEN last.args[2] ELSE last.args[3]

StartsNear(clips, t) == {i \in 1..Len(clips) : Within(clips[i].start_time, t)}

Distinct(clips) ==
    \A i, j \in 1..Len(clips) : i < j => ~Within(clips[i].start_time, clips[j].start_time)

AllDistinct(trs) == \A k \in 1..Len(trs) : Distinct(trs[k].arrangement_clips)

\* C1: after a successful move of the clip at index i from s to s', s' # s and no
\* clip within the tolerance of s' before, exactly one clip starts within the
\* tolerance of s' and none within the tolerance of s
C1_MoveInvariant ==
    (/\ last.op = "move" /\ Succeeded
     /\ Present(last.args[1], Len(last.pre)) /\ Present(last.args[2], Len(PreClips))
     /\ Target # Named.start_time
     /\ StartsNear(PreClips, Target) = {})
    => /\ Cardinality(StartsNear(PostClips, Target)) = 1
       /\ StartsNear(PostClips, Named.start_time) = {}

\* C2: create(track, t, L) followed by delete(track, k), k the index of the
\* create's reply, succeeds and leaves the track with as many clips as before
\* the create, starting at the same times up to the tolerance
C2_CreateDeleteRoundTrip ==
    trip.phase = "deleted"
    => LET tp     == PyPos(trip.track_index, Len(trip.pre))
           before == trip.pre[tp].arrangement_clips
           after  == tracks[tp].arrangement_clips
       IN /\ last.result = "ok"
          /\ Len(after) = Len(before)
          /\ \A i \in 1..Len(before) : Within(after[i].start_time, before[i].start_time)

\* the round trip has run on a track that had a clip within the tolerance of t
C2_Witness ==
    /\ trip.phase = "deleted"
    /\ StartsNear(trip.pre[PyPos(trip.track_index, Len(trip.pre))].arrangement_clips,
                  trip.start_time) # {}

\* C3: after a successful split at t of a clip spanning [s, e), the left piece
\* (first index of the reply) spans [s, t), the right piece (second index)
\* spans [t, e), and their lengths add up to e - s
C3_SplitInvariant ==
    (/\ last.op = "split" /\ Succeeded
     /\ Present(last.args[1], Len(last.pre)) /\ Present(last.args[2], Len(PreClips)))
    => /\ last.reply[3] >= 0
       /\ LET left  == PostClips[last.reply[2] + 1]
              right == PostClips[last.reply[3] + 1]
          IN /\ left.start_time = Named.start_time
             /\ EndTime(left) = Target
             /\ right.start_time = Target
             /\ EndTime(right) = EndTime(Named)
             /\ Length(left) + Length(right) = Length(Named)

\* C4: a split of a present clip at a time not strictly between its start and
\* its end fails with the bounds violation and leaves the song as it was
C4_SplitBoundary ==
    (/\ last.op = "split" /\ Len(last.args) = 3 /\ has_arrangement
     /\ PyInRange(last.args[1], Len(last.pre))
     /\ PyInRange(last.args[2], Len(PreClips))
     /\ (Target <= Named.start_time \/ Target >= EndTime(Named)))
    => /\ last.result = "BoundsViolation"
       /\ tracks = last.pre

\* a split at exactly the end time of the clip has been refused
C4_Witness ==
    /\ last.op = "split" /\ last.result = "BoundsViolation"
    /\ Target = EndTime(Named)

\* the copy a duplicate makes of the named clip
Copied == [Named EXCEPT !.start_time = Target]

\* index r of the track designates the new copy: the clip there is the copy and
\* the other clips are the clips of before, in their order
DesignatesCopy(r) ==
    /\ Present(r, Len(PostClips))
    /\ PostClips[r + 1] = Copied
    /\ RemoveAt(PostClips, r + 1) = PreClips

\* C5 as claimed: after duplicate(track, i, d) the original is unchanged, a copy
\* with the same content starts at d, and the reply's index designates the copy
C5_DuplicateInvariant ==
    (last.op = "duplicate" /\ Succeeded)
    => DesignatesCopy(last.reply[2])

\* C5 as amended: the original is unchanged and a copy with the same content
\* starts at d; the reply's index designates the copy when no clip of the track
\* started within the tolerance of d before the command
C5_DuplicateAmended ==
    (last.op = "duplicate" /\ Succeeded)
    => /\ \E r \in 0..(Len(PostClips) - 1) : DesignatesCopy(r)
       /\ StartsNear(PreClips, Target) = {} => DesignatesCopy(last.reply[2])

\* a clip has been duplicated to a free time before its own start
C5_Witness ==
    /\ last.op = "duplicate" /\ Succeeded
    /\ StartsNear(PreClips, Target) = {}
    /\ Target < Named.start_time
    /\ last.reply[2] = 0

\* C6: a track-level command that ends in an error has changed nothing
C6_FailFast ==
    (Answered /\ last.op \in TrackLevel /\ last.result # "ok")
    => tracks = last.pre

\* C7 as claimed: on a host with arrangement access, where a failed command
\* changes nothing, no two clips of a track ever start within the tolerance of
\* each other
C7_StartTimesDistinct == has_arrangement => AllDistinct(tracks)

\* C7 as amended: a successful track-level command keeps the start times of
\* every track apart when the time it places a clip at is not within the
\* tolerance of the start of a clip already on the track
C7_DistinctAmended ==
    (/\ Succeeded /\ last.op \in TrackLevel
     /\ AllDistinct(last.pre)
     /\ last.op # "delete" => StartsNear(PreClips, Target) = {})
    => AllDistinct(tracks)

\* a clip has been duplicated to a free time on a track of two clips
C7_Witness ==
    /\ last.op = "duplicate" /\ Succeeded
    /\ AllDistinct(last.pre)
    /\ StartsNear(PreClips, Target) = {}
    /\ Len(PostClips) = 2

ReplyOps == {"create", "duplicate_to_arrangement", "move", "duplicate"}

\* C8: the index in the reply of create, duplicate-from-session, move and
\* duplicate is the smallest index, after the mutation, of a clip within the
\* tolerance of the target time, and the not-found reply when there is none
C8_PostMutationResolution ==
    (Succeeded /\ last.op \in ReplyOps)
    => LET near == StartsNear(PostClips, Target)
       IN IF near # {}
          THEN last.reply = <<last.args[1], Min(near) - 1>>
          ELSE last.reply = IF last.op = "duplicate_to_arrangement"
                            THEN <<last.args[1]>>
                            ELSE <<last.args[1], -1>>

\* two clips are within the tolerance of the target and the reply names the
\* first, which is not the last clip of the track
C8_Witness ==
    /\ Succeeded /\ last.op \in ReplyOps
    /\ Cardinality(StartsNear(PostClips, Target)) >= 2
    /\ last.reply[2] = 0

\* C9: on a host with arrangement access, a command with a track index, a clip
\* index or a slot index that is negative or past the end fails as out of
\* range and changes nothing
C9_OutOfRange ==
    (/\ Answered /\ has_arrangement /\ Len(last.args) >= 2
     /\ \/ ~Present(last.args[1], Len(last.pre))
        \/ /\ last.op \in {"delete", "split", "move", "duplicate", "get", "set"}
           /\ Present(last.args[1], Len(last.pre))
           /\ ~Present(last.args[2], Len(PreClips))
        \/ /\ last.op = "duplicate_to_arrangement"
           /\ Present(last.args[1], Len(last.pre))
           /\ ~Present(last.args[2], Len(last.pre[TrackPos].clip_slots)))
    => /\ last.result = "OutOfRange"
       /\ tracks = last.pre

\* the command passes the checks its handler makes on the session slots
SlotsAllow ==
    LET slots == last.pre[TrackPos].clip_slots
    IN /\ last.op = "create" => FirstEmptySlot(slots) # 0
       /\ last.op = "duplicate_to_arrangement"
            => /\ PyInRange(last.args[2], Len(slots))
               /\ slots[PyPos(last.args[2], Len(slots))].has_clip

\* C10: on a host without arrangement access, a command with all its arguments
\* that names a track fails for want of the capability (the handler's own error
\* or the host's missing attribute) and changes nothing
C10_CapabilityUnavailable ==
    (/\ Answered /\ ~has_arrangement
     /\ Len(last.args) = (IF last.op \in {"delete", "get"} THEN 2 ELSE 3)
     /\ PyInRange(last.args[1], Len(last.pre))
     /\ SlotsAllow)
    => /\ last.result \in {"CapabilityUnavailable", "AttributeError"}
       /\ tracks = last.pre

\* the reply of a re-scan that found no clip at the target time
Sentinel ==
    IF last.op = "duplicate_to_arrangement"
    THEN last.reply = <<last.args[1]>>
    ELSE last.reply = <<last.args[1], -1>>

\* the clip the command was to put at the target time
Placed ==
    CASE last.op = "create" -> [NewSessionClip(last.args[3]) EXCEPT !.start_time = Target]
      [] last.op = "duplicate_to_arrangement" ->
            LET slots == last.pre[TrackPos].clip_slots
            IN [slots[PyPos(last.args[2], Len(slots))].clip EXCEPT !.start_time = Target]
      [] OTHER -> [Named EXCEPT !.start_time = Target]

\* the clips of before that the command was to leave on the track
Kept ==
    IF last.op = "move" THEN RemoveAt(PreClips, PyPos(last.args[2], Len(PreClips)))
    ELSE PreClips

\* the edit took effect: the placed clip is on the track among the kept ones
EditApplied ==
    \E p \in 1..Len(PostClips) : PostClips[p] = Placed /\ RemoveAt(PostClips, p) = Kept

\* C11: whenever create, move, duplicate or duplicate-from-session answers with
\* the not-found reply, the requested edit has been applied to the track: the
\* created, moved or copied clip is on it and, for move, the original is gone
C11_SoftSentinel ==
    (/\ Succeeded /\ last.op \in ReplyOps /\ Sentinel
     /\ Present(last.args[1], Len(last.pre))
     /\ last.op \in {"move", "duplicate"} => Present(last.args[2], Len(PreClips)))
    => EditApplied

\* the place of the named clip on its track before the command
NamedPos == PyPos(last.args[2], Len(PreClips))

\* a split of a clip named by an ordinary index has succeeded
SplitDone ==
    /\ last.op = "split" /\ Succeeded
    /\ Present(last.args[1], Len(last.pre)) /\ Present(last.args[2], Len(PreClips))

\* the reply is (track_index, l, r), l the index of a clip that starts at s and
\* r # l the index of a clip that starts at t; (0, 0, 1) for the one clip
\* [0, 4) split at 2
SplitReplyNamesPieces ==
    /\ Len(last.reply) = 3 /\ last.reply[1] = last.args[1]
    /\ Present(last.reply[2], Len(PostClips)) /\ Present(last.reply[3], Len(PostClips))
    /\ PostClips[last.reply[2] + 1].start_time = Named.start_time
    /\ PostClips[last.reply[3] + 1].start_time = Target
    /\ last.reply[2] # last.reply[3]
    /\ (Len(PreClips) = 1 /\ Named.start_time = 0 /\ EndTime(Named) = 4 /\ Target = 2)
         => last.reply = <<last.args[1], 0, 1>>

\* C12 as claimed: a successful split at t of a clip starting at s replies
\* (track_index, left_index, right_index), the indices after the split of the
\* clip starting at s and of the clip starting at t, which are distinct
C12_SplitReplyIndices == SplitDone => SplitReplyNamesPieces

\* no other clip of the track starts within the tolerance of s or of t
SplitUncrowded ==
    /\ StartsNear(PreClips, Named.start_time) = {NamedPos}
    /\ StartsNear(PreClips, Target) \subseteq {NamedPos}

\* C12 as amended: the same, on a track where no other clip starts within the
\* tolerance of s or of t
C12_SplitReplyAmended == (SplitDone /\ SplitUncrowded) => SplitReplyNamesPieces

\* a clip has been split next to a second clip of its track
C12_Witness ==
    /\ SplitDone /\ SplitUncrowded
    /\ Len(PostClips) = 3
    /\ last.reply = <<0, 0, 1>>

\* the session slots of the named track before and after the command
PreSlots == last.pre[TrackPos].clip_slots

PostSlots == tracks[TrackPos].clip_slots

\* the session slots of every track are as they were before the command
SlotsRestored == \A k \in 1..Len(tracks) : tracks[k].clip_slots = last.pre[k].clip_slots

\* C13: a create command changes no session slot that held a clip, puts its
\* scratch clip in no slot but the lowest one without a clip and, when it
\* succeeds, leaves every session slot with the occupancy and the content it had
C13_ScratchTransient ==
    (/\ last.op = "create" /\ Answered /\ Len(last.args) = 3
     /\ PyInRange(last.args[1], Len(last.pre)))
    => /\ \A i \in 1..Len(PreSlots) : PreSlots[i].has_clip => PostSlots[i] = PreSlots[i]
       /\ \A i \in 1..Len(PreSlots) :
            PostSlots[i] # PreSlots[i] => \A j \in 1..(i - 1) : PreSlots[j].has_clip
       /\ Succeeded => SlotsRestored

\* a create has succeeded on a track with two free slots that held a clip
\* made by an earlier create
C13_Witness ==
    /\ last.op = "create" /\ Succeeded
    /\ Cardinality({i \in 1..Len(PreSlots) : ~PreSlots[i].has_clip}) = 2
    /\ Len(PreClips) = 1 /\ PreClips[1].name = "" /\ Len(PostClips) = 2
    /\ SlotsRestored

\* C14: when a create command ends, in success or in failure, no session slot
\* that was empty before the command holds a clip
C14_ScratchReleased ==
    (/\ last.op = "create" /\ Answered /\ Len(last.args) = 3
     /\ PyInRange(last.args[1], Len(last.pre)))
    => \A i \in 1..Len(PreSlots) : ~PreSlots[i].has_clip => ~PostSlots[i].has_clip

\* a session slot holds the scratch clip of a create (the session clips of the
\* song itself are named)
ScratchPresent ==
    \E k \in 1..Len(tracks) : \E i \in 1..Len(tracks[k].clip_slots) :
        /\ tracks[k].clip_slots[i].has_clip
        /\ tracks[k].clip_slots[i].clip.name = ""

ClipScoped ==
    {"get", "set", "get_notes", "add_notes", "remove_notes", "start_listen", "stop_listen"}

\* the arguments of the command after (track_index, clip_index)
Rest == SubSeq(last.args, 3, Len(last.args))

\* the named clip after the command
NamedAfter == PostClips[NamedPos]

\* the reply is the handler's result rv after the (track_index, clip_index) of
\* the request
Prefixed(rv) == last.reply = <<last.args[1], last.args[2]>> \o rv

\* C16: a clip-scoped command (track_index, clip_index, rest...) that succeeds
\* has applied its handler to arrangement_clips[clip_index] of
\* tracks[track_index] and to no other clip, with rest as its arguments (with
\* the whole argument tuple for start_listen and stop_listen); the reply is the
\* handler's result after (track_index, clip_index), and there is no reply when
\* the handler has no result
C16_ReplyCorrelation ==
    (Succeeded /\ last.op \in ClipScoped)
    => /\ \A k \in 1..Len(tracks) : k # TrackPos => tracks[k] = last.pre[k]
       /\ PostSlots = PreSlots
       /\ Len(PostClips) = Len(PreClips)
       /\ \A i \in 1..Len(PreClips) : i # NamedPos => PostClips[i] = PreClips[i]
       /\ CASE last.op = "get" ->
                 /\ NamedAfter = Named
                 /\ Prefixed(<<GetProperty(Named, last.prop)>>)
            [] last.op = "set" ->
                 /\ NamedAfter = SetProperty(Named, last.prop, Rest[1])
                 /\ Prefixed(<<Rest[1]>>)
            [] last.op = "get_notes" ->
                 /\ NamedAfter = Named
                 /\ Prefixed(Flatten(GetNotesExtended(Named, SpanOf(Rest))))
            [] last.op = "add_notes" ->
                 /\ NamedAfter = AddNewNotes(Named, Chunks(Rest))
                 /\ last.reply = <<>>
            [] last.op = "remove_notes" ->
                 /\ NamedAfter = RemoveNotesExtended(Named, SpanOf(Rest))
                 /\ last.reply = <<>>
            [] last.op = "start_listen" ->
                 /\ NamedAfter = Named
                 /\ <<last.prop, last.args>> \in listeners
                 /\ last.reply = <<>>
            [] last.op = "stop_listen" ->
                 /\ NamedAfter = Named
                 /\ <<last.prop, last.args>> \notin listeners
                 /\ last.reply = <<>>

\* the notes of the last clip of a track of two have been read by the index -1
\* and the reply carries a note after (0, -1)
C16_Witness ==
    /\ last.op = "get_notes" /\ Succeeded
    /\ Len(PreClips) = 2
    /\ last.args[2] = -1
    /\ Len(last.reply) = 7

\* C17: after a successful move of the clip at index i to s', the clip that is
\* gone is the one that was at index i before: the track holds the copy at s'
\* and, around it, every other clip of before with its start time and
\* attributes, for s' earlier as well as later than the old start
C17_MoveDeletesOriginal ==
    (/\ last.op = "move" /\ Succeeded
     /\ Present(last.args[1], Len(last.pre)) /\ Present(last.args[2], Len(PreClips)))
    => \E p \in 1..Len(PostClips) :
          /\ PostClips[p] = [Named EXCEPT !.start_time = Target]
          /\ RemoveAt(PostClips, p) = RemoveAt(PreClips, NamedPos)

\* the left piece of the split as claimed: the named clip with its end_marker,
\* and its loop_end if it is looping, at t - s
LeftPiece ==
    [Named EXCEPT !.end_marker = Target - Named.start_time,
                  !.loop_end = IF Named.looping THEN Target - Named.start_time ELSE @]

\* the right piece as claimed: its copy at t with its start_marker, and its
\* loop_start if it is looping, at t - s
RightPiece ==
    [Named EXCEPT !.start_time = Target,
                  !.start_marker = Target - Named.start_time,
                  !.loop_start = IF Named.looping THEN Target - Named.start_time ELSE @]

\* the track holds the two pieces, trimmed, and every other clip as it was
SplitTrimmed ==
    \E p \in 1..Len(PostClips) :
        /\ PostClips[p] = RightPiece
        /\ RemoveAt(PostClips, p) = [PreClips EXCEPT ![NamedPos] = LeftPiece]

\* C18 as claimed: after a successful split at t of a clip starting at s the
\* left piece has its end_marker at t - s and the right piece its start_marker;
\* loop_end of the left and loop_start of the right piece are set to t - s if
\* and only if the piece is looping; no other clip of the track is changed
C18_SplitTrimming == SplitDone => SplitTrimmed

\* C18 as amended: the same, on a track where no other clip starts within the
\* tolerance of s or of t
C18_SplitTrimmingAmended == (SplitDone /\ SplitUncrowded) => SplitTrimmed

\* a looping clip has been split next to a second clip of its track
C18_Witness ==
    /\ SplitDone /\ SplitUncrowded
    /\ Named.looping
    /\ Len(PostClips) = 3
    /\ PostClips[NamedPos].loop_end = Target - Named.start_time

\* C19: a successful delete(track, i), i a present index, removes the clip that
\* was at index i and no other: the track has one clip less, the others with
\* their start times, attributes and order; its session slots and the other
\* tracks are as before
C19_DeleteFrame ==
    (/\ last.op = "delete" /\ Succeeded
     /\ Present(last.args[1], Len(last.pre)) /\ Present(last.args[2], Len(PreClips)))
    => /\ Len(PostClips) = Len(PreClips) - 1
       /\ \A j \in 1..Len(PostClips) :
            PostClips[j] = IF j <= last.args[2] THEN PreClips[j] ELSE PreClips[j + 1]
       /\ PostSlots = PreSlots
       /\ \A k \in 1..Len(tracks) : k # TrackPos => tracks[k] = last.pre[k]
       /\ last.reply = <<>>

\* the second of two clips has been deleted
C19_Witness ==
    /\ last.op = "delete" /\ Succeeded
    /\ Len(PreClips) = 2
    /\ last.args[2] = 1
    /\ PostClips = <<PreClips[1]>>

====
